---- MODULE Spec2Model ----
(***************************************************************************)
(* md-http: a server that renders one Markdown document at startup and     *)
(* serves it over HTTP (src/main.go).  The model covers the command line   *)
(* (parse, main), the startup of run, the route handlers registered on the *)
(* default mux, the response recorder, and the signal-driven shutdown.     *)
(***************************************************************************)
EXTENDS Integers, Sequences, FiniteSets, TLC

\* ------------------------------------------------------------------ bounds
\* Number of connections the accept loop takes in one execution.
MaxConns == 2

\* --------------------------------------------------------------- constants
StatusOK == 200
StatusMovedPermanently == 301
StatusNotModified == 304
StatusTemporaryRedirect == 307
StatusNotFound == 404
StatusMethodNotAllowed == 405
StatusPreconditionFailed == 412

DefaultListenAddr == "0.0.0.0:8080"
DefaultPageTitle == "Landing page"
DefaultCssUrl == ""

\* Values of the error results of parse, run and mainInner.
NoError == "nil"
ErrServerClosed == "http: Server closed"
ErrFlag == "flag: parse error"
ErrOpenFile == "failed to open the file"
ErrReadCss == "failed to read the css file"
ErrReadFavicon == "failed to read the favicon file"
ErrListen == "listen: bind failed"

\* ----------------------------------------------------- strings and hashing
Digit(d) ==
    CASE d = 0 -> "0" [] d = 1 -> "1" [] d = 2 -> "2" [] d = 3 -> "3"
      [] d = 4 -> "4" [] d = 5 -> "5" [] d = 6 -> "6" [] d = 7 -> "7"
      [] d = 8 -> "8" [] d = 9 -> "9" [] d = 10 -> "a" [] d = 11 -> "b"
      [] d = 12 -> "c" [] d = 13 -> "d" [] d = 14 -> "e" [] OTHER -> "f"

\* strconv.Itoa on the non-negative lengths the handler formats.
RECURSIVE Itoa(_)
Itoa(n) == IF n < 10 THEN Digit(n) ELSE Itoa(n \div 10) \o Digit(n % 10)

\* sha256.Sum256, reduced to a 16 bit digest: a deterministic function of the
\* bytes that is sensitive to every byte and to their order.
RECURSIVE Sum256(_)
Sum256(b) ==
    IF b = <<>> THEN 24593
    ELSE (Sum256(SubSeq(b, 1, Len(b) - 1)) * 31 + b[Len(b)] + 7) % 65536

\* fmt.Sprintf("%x", digest): lower-case hex, two digits per digest byte.
Sprintfx(n) ==
    Digit((n \div 4096) % 16) \o Digit((n \div 256) % 16)
        \o Digit((n \div 16) % 16) \o Digit(n % 16)

\* -------------------------------------------------- the css option's value
\* The css references of the model, split into the scheme prefix and the
\* rest, which is all strings.HasPrefix and strings.TrimPrefix look at.
CssParts(s) ==
    CASE s = "file://style.css" -> [scheme |-> "file://", rest |-> "style.css"]
      [] s = "http://cdn/site.css" -> [scheme |-> "http://", rest |-> "cdn/site.css"]
      [] s = "https://cdn/site.css" -> [scheme |-> "https://", rest |-> "cdn/site.css"]
      [] OTHER -> [scheme |-> "", rest |-> s]
HasPrefix(s, prefix) == CssParts(s).scheme = prefix
TrimPrefix(s, prefix) == IF HasPrefix(s, prefix) THEN CssParts(s).rest ELSE s

\* ------------------------------------------------------ rendering (external)
TitleBytes(title) == IF title = DefaultPageTitle THEN <<76>> ELSE <<84>>
CssLinkBytes(css) ==
    IF css = "" THEN <<>>
    ELSE IF css = "default.css" THEN <<100>>
    ELSE <<104>>
\* blackfriday.Markdown with HTML_COMPLETE_PAGE: a page holding the title, the
\* stylesheet link when one is given, and the rendered document.
Markdown(raw, title, css) == <<60>> \o TitleBytes(title) \o CssLinkBytes(css) \o raw

\* ------------------------------------------------ net/http response writer
HeaderNames == {"Content-Type", "Content-Length", "Etag", "Location"}
NoHeaders == [k \in HeaderNames |-> ""]

\* The server's response for one request: the header map handlers mutate, the
\* status line and header snapshot fixed by the first WriteHeader, the body.
NewResponse ==
    [wroteHeader |-> FALSE, status |-> 0, header |-> NoHeaders,
     sent |-> NoHeaders, body |-> <<>>, calls |-> <<>>]

bodyAllowedForStatus(status) ==
    ~ (status \in 100..199 \/ status = 204 \/ status = StatusNotModified)

\* Calls a handler makes on its http.ResponseWriter.
SetCall(k, v) == [op |-> "Header.Set", key |-> k, val |-> v, code |-> 0, bytes |-> <<>>]
WriteHeaderCall(c) == [op |-> "WriteHeader", key |-> "", val |-> "", code |-> c, bytes |-> <<>>]
WriteCall(b) == [op |-> "Write", key |-> "", val |-> "", code |-> 0, bytes |-> b]

InnerSet(w, k, v) ==
    [w EXCEPT !.header[k] = v, !.calls = Append(@, SetCall(k, v))]

\* Faulty variant: every header the handler set is sent.
suppressedHeaders_None(status) == {}

\* net/http's suppressedHeaders: the headers the server leaves out of a
\* response whose status allows no body.
suppressedHeaders(status) ==
    IF status = StatusNotModified THEN {"Content-Type", "Content-Length"}
    ELSE IF ~ bodyAllowedForStatus(status) THEN {"Content-Length"}
    ELSE {}

\* The first WriteHeader fixes the status and the headers sent: the header
\* map as it is then, without the headers suppressed for the status.
WriteHeaderOnce(w, code) ==
    IF w.wroteHeader THEN w
    ELSE [w EXCEPT !.wroteHeader = TRUE, !.status = code,
                   !.sent = [k \in HeaderNames |->
                                IF k \in suppressedHeaders(code) THEN "" ELSE w.header[k]]]

InnerWriteHeader(w, code) ==
    [WriteHeaderOnce(w, code) EXCEPT !.calls = Append(@, WriteHeaderCall(code))]

\* Write: an implicit WriteHeader(200) when none was made; the bytes are taken
\* unless the status forbids a body.  Yields the writer and the count.
InnerWrite(w, bytes) ==
    LET w1 == WriteHeaderOnce(w, StatusOK)
        n == IF bodyAllowedForStatus(w1.status) THEN Len(bytes) ELSE 0
    IN [w |-> [w1 EXCEPT !.body = @ \o SubSeq(bytes, 1, n),
                         !.calls = Append(@, WriteCall(bytes))],
        n |-> n]

\* ------------------------------------------------------- responseRecorder
\* returned: the counts Write has given back to the handler, in order.
NewRecorder(writer) ==
    [Inner |-> writer, Written |-> 0, StatusCode |-> StatusOK, returned |-> <<>>]

RecorderHeaderSet(r, k, v) == [r EXCEPT !.Inner = InnerSet(r.Inner, k, v)]

\* Faulty variant: the bytes are passed on and not counted.
RecorderWrite_NotCounted(r, bytes) ==
    LET res == InnerWrite(r.Inner, bytes)
    IN [r EXCEPT !.Inner = res.w, !.returned = Append(@, res.n)]

RecorderWrite(r, bytes) ==
    LET res == InnerWrite(r.Inner, bytes)
    IN [r EXCEPT !.Inner = res.w, !.Written = @ + res.n,
                 !.returned = Append(@, res.n)]

\* Faulty variant: the status is recorded and not passed on.
RecorderWriteHeader_NotForwarded(r, statusCode) ==
    [r EXCEPT !.StatusCode = statusCode]

RecorderWriteHeader(r, statusCode) ==
    [r EXCEPT !.StatusCode = statusCode,
              !.Inner = InnerWriteHeader(r.Inner, statusCode)]

RecorderCall(r, c) ==
    CASE c.op = "Header.Set" -> RecorderHeaderSet(r, c.key, c.val)
      [] c.op = "WriteHeader" -> RecorderWriteHeader(r, c.code)
      [] OTHER -> RecorderWrite(r, c.bytes)

RECURSIVE RecorderCalls(_, _)
RecorderCalls(r, cs) ==
    IF cs = <<>> THEN r
    ELSE RecorderCalls(RecorderCall(r, Head(cs)), Tail(cs))
\* A handler's calls made on the server's writer itself, without a recorder:
\* the writer they leave and the counts its Write gave back.
RECURSIVE WriterCalls(_, _, _)
WriterCalls(w, results, cs) ==
    IF cs = <<>> THEN [w |-> w, results |-> results]
    ELSE LET c == Head(cs)
         IN CASE c.op = "Header.Set" ->
                     WriterCalls(InnerSet(w, c.key, c.val), results, Tail(cs))
              [] c.op = "WriteHeader" ->
                     WriterCalls(InnerWriteHeader(w, c.code), results, Tail(cs))
              [] OTHER ->
                     LET res == InnerWrite(w, c.bytes)
                     IN WriterCalls(res.w, Append(results, res.n), Tail(cs))

\* ---------------------------------------------------------- route handlers
ContentTypeHtml == "text/html; charset=utf-8"
ContentTypeCss == "text/css; charset=utf-8"
ContentTypePlain == "text/plain; charset=utf-8"
ContentTypePng == "image/png"

\* "healthz check passed"
HealthzBody ==
    <<104, 101, 97, 108, 116, 104, 122, 32, 99, 104, 101, 99, 107, 32,
      112, 97, 115, 115, 101, 100>>
\* "404 page not found\n", shortened
NotFoundBody == <<52, 48, 52>>
\* the anchor http.Redirect writes for a GET, shortened
MovedBody == <<60, 97, 62>>

\* Handler of "/default.css": the calls it makes on its writer.
\* Faulty variant: the stylesheet is sent with the type of the page.
cssHandler_HtmlType(request, rawCss) ==
    IF request.method # "GET" THEN <<WriteHeaderCall(StatusMethodNotAllowed)>>
    ELSE <<SetCall("Content-Type", ContentTypeHtml), WriteCall(rawCss)>>

cssHandler(request, rawCss) ==
    IF request.method # "GET" THEN <<WriteHeaderCall(StatusMethodNotAllowed)>>
    ELSE <<SetCall("Content-Type", ContentTypeCss), WriteCall(rawCss)>>

\* Faulty variant: a request that carries If-Match is refused.
healthzHandler_HonoursIfMatch(request) ==
    IF request.method # "GET" THEN <<WriteHeaderCall(StatusMethodNotAllowed)>>
    ELSE IF request.ifMatch # "" THEN <<WriteHeaderCall(StatusPreconditionFailed)>>
    ELSE <<SetCall("Content-Type", ContentTypePlain), WriteCall(HealthzBody)>>

\* Handler of "/healthz".
healthzHandler(request) ==
    IF request.method # "GET" THEN <<WriteHeaderCall(StatusMethodNotAllowed)>>
    ELSE <<SetCall("Content-Type", ContentTypePlain), WriteCall(HealthzBody)>>

\* Handler of "/favicon.ico".
\* Faulty variant: the icon is redirected to a default route.
faviconHandler_Redirects(request) ==
    IF request.method # "GET" THEN <<WriteHeaderCall(StatusMethodNotAllowed)>>
    ELSE <<SetCall("Location", "default-favicon.png"),
           WriteHeaderCall(StatusTemporaryRedirect)>>

faviconHandler(request) ==
    IF request.method # "GET" THEN <<WriteHeaderCall(StatusMethodNotAllowed)>>
    ELSE <<WriteHeaderCall(StatusNotFound)>>

\* The favicon option, as the README and the test of the favicon describe
\* it: the route the page's icon is served on, "" when none is configured.
DefaultFaviconRoute == "/default-favicon.png"
DefaultFaviconUrl == "default-favicon.png"
NoFavicon == [url |-> "", bytes |-> <<>>]

\* Handler of "/favicon.ico" with the favicon option: a configured favicon
\* is answered with a temporary redirect to its route, none as before.
faviconRedirectHandler(request, favicon) ==
    IF favicon.url = "" THEN faviconHandler(request)
    ELSE IF request.method # "GET" THEN <<WriteHeaderCall(StatusMethodNotAllowed)>>
    ELSE <<SetCall("Location", favicon.url), WriteHeaderCall(StatusTemporaryRedirect)>>

\* Faulty variant: the bytes are sent without their type.
defaultFaviconHandler_Untyped(request, favicon) ==
    IF request.method # "GET" THEN <<WriteHeaderCall(StatusMethodNotAllowed)>>
    ELSE <<WriteCall(favicon.bytes)>>

\* Handler of "/default-favicon.png": the bytes of the favicon file.
defaultFaviconHandler(request, favicon) ==
    IF request.method # "GET" THEN <<WriteHeaderCall(StatusMethodNotAllowed)>>
    ELSE <<SetCall("Content-Type", ContentTypePng), WriteCall(favicon.bytes)>>

\* Faulty variant: If-Match holds for "*", as it does in RFC 9110.
IfMatchFails_StarMatches(request, hashString) ==
    request.ifMatch \notin {"", "*", hashString}

\* Faulty variant: every If-Match value fails, the fingerprint too.
IfMatchFails_AnyValue(request, hashString) ==
    request.ifMatch # ""

\* The If-Match test of the handler of "/".
IfMatchFails(request, hashString) ==
    request.ifMatch # "" /\ request.ifMatch # hashString

\* Faulty variant: the comparison with the fingerprint is inverted.
IfNoneMatchHits_Inverted(request, hashString) ==
    request.ifNoneMatch # "" /\ request.ifNoneMatch # hashString

\* The If-None-Match test of the handler of "/".
IfNoneMatchHits(request, hashString) ==
    request.ifNoneMatch # "" /\ request.ifNoneMatch = hashString

\* Faulty variant: If-None-Match is tested before If-Match.
rootHandler_IfNoneMatchFirst(request, hashString, htmlContent) ==
    IF request.method # "GET" THEN <<WriteHeaderCall(StatusMethodNotAllowed)>>
    ELSE IF IfNoneMatchHits(request, hashString)
    THEN <<SetCall("Content-Length", Itoa(Len(htmlContent))),
           SetCall("Content-Type", ContentTypeHtml),
           WriteHeaderCall(StatusNotModified)>>
    ELSE IF IfMatchFails(request, hashString)
    THEN <<WriteHeaderCall(StatusPreconditionFailed)>>
    ELSE <<SetCall("Etag", hashString),
           SetCall("Content-Type", ContentTypeHtml),
           WriteCall(htmlContent)>>

\* Faulty variant: the Etag header is set after the body is written.
rootHandler_EtagAfterWrite(request, hashString, htmlContent) ==
    IF request.method # "GET" THEN <<WriteHeaderCall(StatusMethodNotAllowed)>>
    ELSE IF IfMatchFails(request, hashString)
    THEN <<WriteHeaderCall(StatusPreconditionFailed)>>
    ELSE IF IfNoneMatchHits(request, hashString)
    THEN <<SetCall("Content-Length", Itoa(Len(htmlContent))),
           SetCall("Content-Type", ContentTypeHtml),
           WriteHeaderCall(StatusNotModified)>>
    ELSE <<SetCall("Content-Type", ContentTypeHtml),
           WriteCall(htmlContent),
           SetCall("Etag", hashString)>>

\* Faulty variant: the method is tested after the conditional headers.
rootHandler_MethodLast(request, hashString, htmlContent) ==
    IF IfMatchFails(request, hashString)
    THEN <<WriteHeaderCall(StatusPreconditionFailed)>>
    ELSE IF IfNoneMatchHits(request, hashString)
    THEN <<SetCall("Content-Length", Itoa(Len(htmlContent))),
           SetCall("Content-Type", ContentTypeHtml),
           WriteHeaderCall(StatusNotModified)>>
    ELSE IF request.method # "GET" THEN <<WriteHeaderCall(StatusMethodNotAllowed)>>
    ELSE <<SetCall("Etag", hashString),
           SetCall("Content-Type", ContentTypeHtml),
           WriteCall(htmlContent)>>

\* Handler of "/".
\* Faulty variant: the 304 is declared after the page was written.
rootHandler_StatusAfterWrite(request, hashString, htmlContent) ==
    IF request.method # "GET" THEN <<WriteHeaderCall(StatusMethodNotAllowed)>>
    ELSE IF IfMatchFails(request, hashString)
    THEN <<WriteHeaderCall(StatusPreconditionFailed)>>
    ELSE IF IfNoneMatchHits(request, hashString)
    THEN <<SetCall("Content-Type", ContentTypeHtml),
           WriteCall(htmlContent),
           WriteHeaderCall(StatusNotModified)>>
    ELSE <<SetCall("Etag", hashString),
           SetCall("Content-Type", ContentTypeHtml),
           WriteCall(htmlContent)>>

rootHandler(request, hashString, htmlContent) ==
    IF request.method # "GET" THEN <<WriteHeaderCall(StatusMethodNotAllowed)>>
    ELSE IF IfMatchFails(request, hashString)
    THEN <<WriteHeaderCall(StatusPreconditionFailed)>>
    ELSE IF IfNoneMatchHits(request, hashString)
    THEN <<SetCall("Content-Length", Itoa(Len(htmlContent))),
           SetCall("Content-Type", ContentTypeHtml),
           WriteHeaderCall(StatusNotModified)>>
    ELSE <<SetCall("Etag", hashString),
           SetCall("Content-Type", ContentTypeHtml),
           WriteCall(htmlContent)>>

\* ------------------------------------------------- http.DefaultServeMux
\* path.Clean as the mux applies it, on the request paths of the model.
cleanPath(p) == IF p = "//healthz" THEN "/healthz" ELSE p

\* http.RedirectHandler(url, 301) for a path that is not clean.
redirectHandler(request) ==
    IF request.method = "GET"
    THEN <<SetCall("Location", cleanPath(request.path)),
           SetCall("Content-Type", ContentTypeHtml),
           WriteHeaderCall(StatusMovedPermanently),
           WriteCall(MovedBody)>>
    ELSE <<SetCall("Location", cleanPath(request.path)),
           WriteHeaderCall(StatusMovedPermanently)>>

\* http.NotFoundHandler, the mux's answer when no pattern matches.
notFoundHandler(request) ==
    <<SetCall("Content-Type", ContentTypePlain),
      WriteHeaderCall(StatusNotFound),
      WriteCall(NotFoundBody)>>

\* ServeMux.match: an exact pattern wins, otherwise the longest registered
\* pattern ending in "/" that prefixes the path; "/" prefixes every path.
muxMatch(patterns, p) ==
    IF p \in patterns THEN p
    ELSE IF "/" \in patterns THEN "/"
    ELSE ""

\* ServeMux.ServeHTTP: the calls made on the writer for a request, given the
\* registered patterns and the values the handlers closed over.
ServeMux(patterns, request, rawCss, favicon, hashString, htmlContent) ==
    IF cleanPath(request.path) # request.path THEN redirectHandler(request)
    ELSE LET pattern == muxMatch(patterns, request.path)
         IN CASE pattern = "/default.css" -> cssHandler(request, rawCss)
              [] pattern = "/healthz" -> healthzHandler(request)
              [] pattern = "/favicon.ico" -> faviconRedirectHandler(request, favicon)
              [] pattern = DefaultFaviconRoute -> defaultFaviconHandler(request, favicon)
              [] pattern = "/" -> rootHandler(request, hashString, htmlContent)
              [] OTHER -> notFoundHandler(request)

\* The server's Handler: a fresh recorder around the connection's writer,
\* the mux, then the log event.
ServerHandler(patterns, request, rawCss, favicon, hashString, htmlContent) ==
    LET recorder ==
            RecorderCalls(NewRecorder(NewResponse),
                          ServeMux(patterns, request, rawCss, favicon, hashString,
                                   htmlContent))
    IN [recorder |-> recorder,
        event |-> [method |-> request.method, uri |-> request.path,
                   status |-> recorder.StatusCode, bytes |-> recorder.Written]]
\* ------------------------------------------------------------------ parse
Options == {"listen", "title", "css", "debug", "jsonlog"}
BoolOptions == {"debug", "jsonlog"}
Unset == [set |-> FALSE, v |-> ""]
Given(v) == [set |-> TRUE, v |-> v]

Default(o) ==
    CASE o = "listen" -> DefaultListenAddr
      [] o = "title" -> DefaultPageTitle
      [] o = "css" -> DefaultCssUrl
      [] OTHER -> "false"

\* strconv.ParseBool, as flag.Value.Set of a bool flag uses it.
ParseBoolOk(v) == v \in {"true", "false", "1", "0"}
ParseBool(v) == IF v \in {"true", "1"} THEN "true" ELSE "false"

\* netip.ParseAddrPort on the listen addresses of the model.
ParseAddrPortOk(v) == v \in {"0.0.0.0:8080", "127.0.0.1:8090", "127.0.0.1:9090"}

\* fs.VisitAll with fs.Set: an environment value replaces the default; a
\* value a bool flag rejects leaves the default (the error is dropped).
EnvValue(args, o) ==
    IF ~ args.env[o].set THEN Default(o)
    ELSE IF o \in BoolOptions
         THEN (IF ParseBoolOk(args.env[o].v) THEN ParseBool(args.env[o].v) ELSE Default(o))
         ELSE args.env[o].v

\* fs.Parse: a flag given on the command line replaces the value so far.
FlagValue(args, o) ==
    IF args.flag[o].set
    THEN (IF o \in BoolOptions THEN ParseBool(args.flag[o].v) ELSE args.flag[o].v)
    ELSE EnvValue(args, o)

NoArgs ==
    [AddrPort |-> "", MarkdownFile |-> "", PageTitle |-> "", CssUrl |-> "",
     LogDebug |-> "false", LogJson |-> "false"]

\* The error parse returns for a wrong argument count or listen address.
UsageError == ErrServerClosed

\* parse: the argsStruct, the error, and what was written to the output.
parse(args) ==
    LET receiver ==
            [NoArgs EXCEPT !.PageTitle = FlagValue(args, "title"),
                           !.CssUrl = FlagValue(args, "css"),
                           !.LogDebug = FlagValue(args, "debug"),
                           !.LogJson = FlagValue(args, "jsonlog")]
        listenAddr == FlagValue(args, "listen")
    IN IF args.flagErr = "help"
       THEN [args |-> receiver, err |-> ErrServerClosed, usage |-> TRUE, message |-> ""]
       ELSE IF args.flagErr = "bad"
       THEN [args |-> receiver, err |-> ErrFlag, usage |-> TRUE,
             message |-> "flag provided but not defined"]
       ELSE IF args.nArg # 1
       THEN [args |-> receiver, err |-> UsageError, usage |-> TRUE,
             message |-> "Expected a single argument as the markdown filepath!"]
       ELSE IF ~ ParseAddrPortOk(listenAddr)
       THEN [args |-> [receiver EXCEPT !.MarkdownFile = "doc.md"],
             err |-> UsageError, usage |-> TRUE,
             message |-> "Invalid value for 'listen'"]
       ELSE [args |-> [receiver EXCEPT !.MarkdownFile = "doc.md", !.AddrPort = listenAddr],
             err |-> NoError, usage |-> FALSE, message |-> ""]

\* main: the exit status for the error mainInner returned.
ExitStatus(err) == IF err # NoError /\ err # ErrServerClosed THEN 1 ELSE 0

\* ------------------------------------------------------------ inputs drawn
AllUnset == [o \in Options |-> Unset]
BaseArgs ==
    [flagErr |-> "none", nArg |-> 1, flag |-> AllUnset, env |-> AllUnset, favicon |-> ""]

\* Command lines and environments: the plain one, and variations of it in the
\* positional arguments, the flag errors, the listen address and the css.
ArgsSet ==
    {[BaseArgs EXCEPT !.nArg = n] : n \in 0..2}
    \cup {[BaseArgs EXCEPT !.flagErr = e] : e \in {"help", "bad"}}
    \cup {[BaseArgs EXCEPT !.flag["listen"] = Given(v)] : v \in {"127.0.0.1:8090", "bogus"}}
    \cup {[BaseArgs EXCEPT !.env["listen"] = Given("bogus")]}
    \cup {[BaseArgs EXCEPT !.env["listen"] = Given("bogus"), !.nArg = 2]}
    \cup {[BaseArgs EXCEPT !.flag["css"] = Given(v)] :
              v \in {"style.css", "file://style.css", "https://cdn/site.css"}}
    \cup {[BaseArgs EXCEPT !.env["css"] = Given("style.css"), !.flag["title"] = Given("Thing")]}
    \cup {[BaseArgs EXCEPT !.favicon = "icon.png"]}

\* Command lines and environments for parse alone: every option given or
\* not as a flag, set or not in the environment, the bool options also with
\* an environment value that is not a bool.
FlagChoices(o) ==
    CASE o = "listen" -> {Unset, Given("127.0.0.1:8090")}
      [] o = "title" -> {Unset, Given("Thing")}
      [] o = "css" -> {Unset, Given("https://cdn/site.css")}
      [] OTHER -> {Unset, Given("true"), Given("false")}
EnvChoices(o) ==
    CASE o = "listen" -> {Unset, Given("127.0.0.1:9090")}
      [] o = "title" -> {Unset, Given("Env title")}
      [] o = "css" -> {Unset, Given("style.css")}
      [] OTHER -> {Unset, Given("1"), Given("0"), Given("maybe")}
ParseArgsSet ==
    {[BaseArgs EXCEPT !.flag = f, !.env = e] :
        f \in {f \in [Options -> UNION {FlagChoices(o) : o \in Options}] :
                  \A o \in Options : f[o] \in FlagChoices(o)},
        e \in {e \in [Options -> UNION {EnvChoices(o) : o \in Options}] :
                  \A o \in Options : e[o] \in EnvChoices(o)}}

\* Contents of the markdown file and of the stylesheet file.
Documents == {<<35, 97>>, <<98>>}
Stylesheets == {<<123, 125>>}
Icons == {<<137, 80>>}

\* Requests: method, path and the two conditional headers ("" when absent).
Request(m, p, im, inm) == [method |-> m, path |-> p, ifMatch |-> im, ifNoneMatch |-> inm]
Methods == {"GET", "POST", "HEAD"}
Paths ==
    {"/", "/healthz", "/favicon.ico", "/default.css", "/default-favicon.png", "/other",
     "//healthz"}
\* Header values a client sends, given the fingerprint h of the served page.
HeaderValues(h) == {"", h, "unknown"}
AllRequests(h) ==
    {Request(m, p, im, inm) :
        m \in Methods, p \in Paths, im \in HeaderValues(h), inm \in HeaderValues(h)}
\* The fingerprint in upper case, as fmt.Sprintf("%X", digest) gives it.
UpperDigit(d) ==
    CASE d = 10 -> "A" [] d = 11 -> "B" [] d = 12 -> "C" [] d = 13 -> "D"
      [] d = 14 -> "E" [] d = 15 -> "F" [] OTHER -> Digit(d)
SprintfX(n) ==
    UpperDigit((n \div 4096) % 16) \o UpperDigit((n \div 256) % 16)
        \o UpperDigit((n \div 16) % 16) \o UpperDigit(n % 16)

\* Header values a client may send to name the fingerprint h: in upper case,
\* quoted as an entity tag, as a weak validator, the wildcard, and lists
\* that hold it.
Variants(h, upper) ==
    {upper, "\"" \o h \o "\"", "W/" \o h, "W/\"" \o h \o "\"", "*",
     h \o ", unknown", "unknown, " \o h}
VariantRequests(h, upper) ==
    {Request("GET", "/", v, "") : v \in Variants(h, upper)}
    \cup {Request("GET", "/", "", v) : v \in Variants(h, upper)}
    \cup {Request("GET", "/", h, v) : v \in Variants(h, upper)}

\* The requests sent while other requests and the shutdown are under way.
FewRequests == {Request("GET", "/", "", ""), Request("POST", "/", "", ""),
                Request("GET", "/healthz", "", "")}

\* ------------------------------------------------------------------- state
VARIABLES
    args,        \* command line and environment, as parse reads them
    output,      \* what parse wrote to the output: usage text, message
    pc,          \* position of the main goroutine in main, mainInner and run
    parsedArgs,  \* the argsStruct of mainInner and run
    err,         \* the error run or parse returned to mainInner and main
    failure,     \* the error the system reported to run: the call, the cause
    exitCode,    \* exit status of the process, -1 while it runs
    slogErrors,  \* messages logged with slog.Error
    sigpc,       \* the signal goroutine of mainInner
    ctxDone,     \* whether ctx is cancelled
    shpc,        \* the shutdown goroutine of run
    shutdownErr, \* whether server.Shutdown is to return an error
    server,      \* net/http server: inShutdown flag, listener
    mux,         \* patterns registered on http.DefaultServeMux
    raw,         \* bytes of the markdown file
    rawCss,      \* bytes of the stylesheet file
    favicon,     \* the configured favicon: the url the page's icon has, its bytes
    htmlContent, \* the rendered page
    hashString,  \* its fingerprint
    conns        \* accepted connections, one request each

vars == <<args, output, pc, parsedArgs, err, failure, exitCode, slogErrors, sigpc, ctxDone,
          shpc, shutdownErr, server, mux, raw, rawCss, favicon, htmlContent,
          hashString, conns>>

mainVars == <<args, output, pc, parsedArgs, err, failure, exitCode, slogErrors>>
snapshotVars == <<mux, raw, rawCss, favicon, htmlContent, hashString>>
shutdownVars == <<sigpc, ctxDone, shpc, shutdownErr, server>>

\* Errors the system reports: for a file that cannot be read, for an address
\* that cannot be bound.
FileErrors == {"no such file or directory"}
BindErrors == {ErrListen, "listen: permission denied"}
NoFailure == [call |-> "", cause |-> ""]
Failure(call, cause) == [call |-> call, cause |-> cause]

\* fmt.Errorf("<message>: %w", cause)
Errorf(message, cause) == message \o ": " \o cause

ConnIds == 1..MaxConns
NoRequest == Request("", "", "", "")
NoEvent == [method |-> "", uri |-> "", status |-> 0, bytes |-> 0]
\* A connection: its state, its request, the recorder of its response, the
\* log event and the number of events logged for it, and whether ctx was cancelled and Shutdown called when the
\* accept loop took it.
IdleConn ==
    [state |-> "idle", request |-> NoRequest,
     recorder |-> NewRecorder(NewResponse), event |-> NoEvent, events |-> 0,
     afterCancel |-> FALSE, afterShutdown |-> FALSE]

InFlight(c) == c.state \in {"active", "handled"}
Running == pc \notin {"exited", "panicked"}

\* The process before main has run, whatever its arguments.
Start ==
    /\ output = [usage |-> FALSE, message |-> ""]
    /\ pc = "main"
    /\ parsedArgs = NoArgs
    /\ err = NoError
    /\ failure = NoFailure
    /\ exitCode = -1
    /\ slogErrors = {}
    /\ sigpc = "none"
    /\ ctxDone = FALSE
    /\ shpc = "none"
    /\ shutdownErr = FALSE
    /\ server = [inShutdown |-> FALSE, listener |-> "none"]
    /\ mux = {}
    /\ raw = <<>>
    /\ rawCss = <<>>
    /\ favicon = NoFavicon
    /\ htmlContent = <<>>
    /\ hashString = ""
    /\ conns = [i \in ConnIds |-> IdleConn]

Init == args \in ArgsSet /\ Start

\* ------------------------------------------------------- main and mainInner
\* mainInner: parse the arguments; an error goes back to main.
Parse ==
    /\ pc = "main"
    /\ LET r == parse(args)
       IN /\ output' = [usage |-> r.usage, message |-> r.message]
          /\ IF r.err # NoError
             THEN /\ err' = r.err
                  /\ pc' = "mainReturn"
                  /\ UNCHANGED parsedArgs
             ELSE /\ parsedArgs' = r.args
                  /\ pc' = "mainInner"
                  /\ UNCHANGED err
    /\ UNCHANGED <<args, failure, exitCode, slogErrors, snapshotVars, shutdownVars, conns>>

\* mainInner: set up logging, open the context, start the signal goroutine,
\* call run.
StartContext ==
    /\ pc = "mainInner"
    /\ pc' = "run"
    /\ sigpc' = "waiting"
    /\ UNCHANGED <<args, failure, output, parsedArgs, err, exitCode, slogErrors, snapshotVars,
                   ctxDone, shpc, shutdownErr, server, conns>>

\* The signal goroutine receives SIGINT or SIGTERM.
Signal ==
    /\ Running
    /\ sigpc = "waiting"
    /\ sigpc' = "caught"
    /\ UNCHANGED <<mainVars, snapshotVars, ctxDone, shpc, shutdownErr, server, conns>>

\* The signal goroutine logs and calls cancel.
SignalCancel ==
    /\ Running
    /\ sigpc = "caught"
    /\ sigpc' = "done"
    /\ ctxDone' = TRUE
    /\ UNCHANGED <<mainVars, snapshotVars, shpc, shutdownErr, server, conns>>

\* run returned: mainInner returns its error, the deferred cancel runs.
MainInnerReturn ==
    /\ pc = "runReturned"
    /\ pc' = "mainReturn"
    /\ ctxDone' = TRUE
    /\ UNCHANGED <<args, failure, output, parsedArgs, err, exitCode, slogErrors, snapshotVars,
                   sigpc, shpc, shutdownErr, server, conns>>

\* When the process ends, every goroutine ends with it: a connection whose
\* response is not yet sent is cut.
AbortConn(c) == IF InFlight(c) THEN [c EXCEPT !.state = "aborted"] ELSE c

\* main: log and exit 1 on an error other than ErrServerClosed, else return.
MainExit ==
    /\ pc = "mainReturn"
    /\ pc' = "exited"
    /\ exitCode' = ExitStatus(err)
    /\ slogErrors' = IF ExitStatus(err) = 1
                     THEN slogErrors \cup {"Exiting with error"} ELSE slogErrors
    /\ conns' = [i \in ConnIds |-> AbortConn(conns[i])]
    /\ UNCHANGED <<args, failure, output, parsedArgs, err, snapshotVars, shutdownVars>>

\* ------------------------------------------------------------ run: startup
\* run returns e to mainInner.
RunReturns(e) == err' = e /\ pc' = "runReturned"

\* Faulty variant: the error of os.ReadFile is dropped and run goes on with
\* an empty document.
ReadMarkdown_ErrorDropped ==
    /\ pc = "run"
    /\ \/ /\ \E bytes \in Documents : raw' = bytes
          /\ UNCHANGED failure
       \/ /\ \E cause \in FileErrors :
                failure' = Failure("os.ReadFile markdown", cause)
          /\ UNCHANGED raw
    /\ pc' = "css"
    /\ UNCHANGED <<args, output, parsedArgs, err, exitCode, slogErrors, mux, rawCss,
                   favicon, htmlContent, hashString, shutdownVars, conns>>

\* os.ReadFile of the markdown file.
ReadMarkdown ==
    /\ pc = "run"
    /\ \/ /\ \E bytes \in Documents : raw' = bytes
          /\ pc' = "css"
          /\ UNCHANGED <<err, failure>>
       \/ /\ \E cause \in FileErrors :
                /\ failure' = Failure("os.ReadFile markdown", cause)
                /\ RunReturns(Errorf(ErrOpenFile, cause))
          /\ UNCHANGED raw
    /\ UNCHANGED <<args, output, parsedArgs, exitCode, slogErrors, mux, rawCss,
                   favicon, htmlContent, hashString, shutdownVars, conns>>

\* http.HandleFunc panics when a pattern is registered already.
HandleFuncPanics(patterns) == patterns \cap mux # {}

\* Whether the css option names a local file.
IsLocalCss(css) ==
    css # "" /\ ~ HasPrefix(css, "http://") /\ ~ HasPrefix(css, "https://")

\* A local stylesheet is read and gets the route /default.css; the page then
\* refers to default.css.
LoadCss ==
    /\ pc = "css"
    /\ IF IsLocalCss(parsedArgs.CssUrl)
       THEN \/ /\ ~ HandleFuncPanics({"/default.css"})
               /\ \E bytes \in Stylesheets : rawCss' = bytes
               /\ mux' = mux \cup {"/default.css"}
               /\ parsedArgs' = [parsedArgs EXCEPT !.CssUrl = "default.css"]
               /\ pc' = "favicon"
               /\ UNCHANGED <<err, failure>>
            \/ /\ \E cause \in FileErrors :
                     /\ failure' = Failure("os.ReadFile css", cause)
                     /\ RunReturns(Errorf(ErrReadCss, cause))
               /\ UNCHANGED <<rawCss, mux, parsedArgs>>
       ELSE /\ pc' = "favicon"
            /\ UNCHANGED <<rawCss, mux, parsedArgs, err, failure>>
    /\ UNCHANGED <<args, output, exitCode, slogErrors, raw, favicon, htmlContent,
                   hashString, shutdownVars, conns>>

\* A favicon file is read and gets the route /default-favicon.png, which
\* /favicon.ico then redirects to.
LoadFavicon ==
    /\ pc = "favicon"
    /\ IF args.favicon # ""
       THEN \/ /\ ~ HandleFuncPanics({DefaultFaviconRoute})
               /\ \E bytes \in Icons :
                     favicon' = [url |-> DefaultFaviconUrl, bytes |-> bytes]
               /\ mux' = mux \cup {DefaultFaviconRoute}
               /\ pc' = "render"
               /\ UNCHANGED <<err, failure>>
            \/ /\ \E cause \in FileErrors :
                     /\ failure' = Failure("os.ReadFile favicon", cause)
                     /\ RunReturns(Errorf(ErrReadFavicon, cause))
               /\ UNCHANGED <<favicon, mux>>
       ELSE /\ pc' = "render"
            /\ UNCHANGED <<favicon, mux, err, failure>>
    /\ UNCHANGED <<args, output, parsedArgs, exitCode, slogErrors, raw, rawCss,
                   htmlContent, hashString, shutdownVars, conns>>

\* The routes run registers whatever the configuration.
FixedRoutes == {"/healthz", "/favicon.ico", "/"}

\* Faulty variant: the fingerprint is taken of the markdown source.
Render_HashOfSource ==
    /\ pc = "render"
    /\ htmlContent' = Markdown(raw, parsedArgs.PageTitle, parsedArgs.CssUrl)
    /\ hashString' = Sprintfx(Sum256(raw))
    /\ mux' = mux \cup FixedRoutes
    /\ pc' = "server"
    /\ UNCHANGED <<args, failure, output, parsedArgs, err, exitCode, slogErrors, raw, rawCss,
                   favicon, shutdownVars, conns>>

\* Render the page, register the routes, compute the fingerprint.
Render ==
    /\ pc = "render"
    /\ ~ HandleFuncPanics(FixedRoutes)
    /\ htmlContent' = Markdown(raw, parsedArgs.PageTitle, parsedArgs.CssUrl)
    /\ hashString' = Sprintfx(Sum256(htmlContent'))
    /\ mux' = mux \cup FixedRoutes
    /\ pc' = "server"
    /\ UNCHANGED <<args, failure, output, parsedArgs, err, exitCode, slogErrors, raw, rawCss,
                   favicon, shutdownVars, conns>>

\* A registration finds its pattern on http.DefaultServeMux: the panic ends
\* the process.
RegisterPanic ==
    /\ \/ pc = "css" /\ IsLocalCss(parsedArgs.CssUrl) /\ HandleFuncPanics({"/default.css"})
       \/ pc = "favicon" /\ args.favicon # "" /\ HandleFuncPanics({DefaultFaviconRoute})
       \/ pc = "render" /\ HandleFuncPanics(FixedRoutes)
    /\ pc' = "panicked"
    /\ exitCode' = 2
    /\ conns' = [i \in ConnIds |-> AbortConn(conns[i])]
    /\ UNCHANGED <<args, output, parsedArgs, err, failure, slogErrors, snapshotVars,
                   shutdownVars>>

\* run is called again in the same process, once an earlier call has
\* returned and its goroutine has ended: the same arguments, a new context,
\* a new server, the same http.DefaultServeMux.
RunAgain ==
    /\ pc = "runReturned"
    /\ shpc \in {"none", "done"}
    /\ \A i \in ConnIds : ~ InFlight(conns[i])
    /\ pc' = "run"
    /\ parsedArgs' = parse(args).args
    /\ err' = NoError
    /\ failure' = NoFailure
    /\ ctxDone' = FALSE
    /\ shpc' = "none"
    /\ shutdownErr' = FALSE
    /\ server' = [inShutdown |-> FALSE, listener |-> "none"]
    /\ UNCHANGED <<args, output, exitCode, slogErrors, sigpc, snapshotVars, conns>>

\* Build the server and start the goroutine that waits for ctx.
StartShutdownWaiter ==
    /\ pc = "server"
    /\ shpc' = "waiting"
    /\ pc' = "listen"
    /\ UNCHANGED <<args, failure, output, parsedArgs, err, exitCode, slogErrors, snapshotVars,
                   sigpc, ctxDone, shutdownErr, server, conns>>

\* Faulty variant: a bind error is reported as the shutdown sentinel.
ListenAndServe_BindErrorMasked ==
    /\ pc = "listen"
    /\ IF server.inShutdown
       THEN RunReturns(ErrServerClosed) /\ UNCHANGED <<server, failure>>
       ELSE \/ /\ server' = [server EXCEPT !.listener = "bound"]
               /\ pc' = "track"
               /\ UNCHANGED <<err, failure>>
            \/ /\ \E cause \in BindErrors :
                     /\ failure' = Failure("net.Listen", cause)
                     /\ RunReturns(ErrServerClosed)
               /\ UNCHANGED server
    /\ UNCHANGED <<args, output, parsedArgs, exitCode, slogErrors, snapshotVars,
                   sigpc, ctxDone, shpc, shutdownErr, conns>>

\* server.ListenAndServe: ErrServerClosed when Shutdown was already called,
\* else bind the address; a bind error is returned as it is.
ListenAndServe ==
    /\ pc = "listen"
    /\ IF server.inShutdown
       THEN RunReturns(ErrServerClosed) /\ UNCHANGED <<server, failure>>
       ELSE \/ /\ server' = [server EXCEPT !.listener = "bound"]
               /\ pc' = "track"
               /\ UNCHANGED <<err, failure>>
            \/ /\ \E cause \in BindErrors :
                     /\ failure' = Failure("net.Listen", cause)
                     /\ RunReturns(cause)
               /\ UNCHANGED server
    /\ UNCHANGED <<args, output, parsedArgs, exitCode, slogErrors, snapshotVars,
                   sigpc, ctxDone, shpc, shutdownErr, conns>>

\* Faulty variant: Serve registers the listener whatever Shutdown has done.
ServeTrack_IgnoresShutdown ==
    /\ pc = "track"
    /\ server' = [server EXCEPT !.listener = "tracked"]
    /\ pc' = "serve"
    /\ UNCHANGED <<args, failure, output, parsedArgs, err, exitCode, slogErrors, snapshotVars,
                   sigpc, ctxDone, shpc, shutdownErr, conns>>

\* server.Serve: register the listener with the server, unless Shutdown was
\* called meanwhile; then Serve closes the listener and returns.
ServeTrack ==
    /\ pc = "track"
    /\ IF server.inShutdown
       THEN /\ server' = [server EXCEPT !.listener = "closed"]
            /\ RunReturns(ErrServerClosed)
       ELSE /\ server' = [server EXCEPT !.listener = "tracked"]
            /\ pc' = "serve"
            /\ UNCHANGED err
    /\ UNCHANGED <<args, failure, output, parsedArgs, exitCode, slogErrors, snapshotVars,
                   sigpc, ctxDone, shpc, shutdownErr, conns>>

\* The value ListenAndServe returns when Accept fails on the closed listener.
ServeError == ErrServerClosed

\* Faulty variant: Serve returns only when no connection is busy.
ServeReturn_WaitsForIdle ==
    /\ pc = "serve"
    /\ server.listener = "closed"
    /\ \A i \in ConnIds : ~ InFlight(conns[i])
    /\ RunReturns(ServeError)
    /\ UNCHANGED <<args, failure, output, parsedArgs, exitCode, slogErrors, snapshotVars,
                   shutdownVars, conns>>

\* server.Serve: Accept fails once Shutdown closed the listener.
ServeReturn ==
    /\ pc = "serve"
    /\ server.listener = "closed"
    /\ RunReturns(ServeError)
    /\ UNCHANGED <<args, failure, output, parsedArgs, exitCode, slogErrors, snapshotVars,
                   shutdownVars, conns>>

\* ------------------------------------------------- the shutdown goroutine
\* Faulty variant: the goroutine does not wait for the context.
ShutdownWake_Unprompted ==
    /\ Running
    /\ shpc = "waiting"
    /\ shpc' = "woken"
    /\ UNCHANGED <<mainVars, snapshotVars, sigpc, ctxDone, shutdownErr, server, conns>>

\* <-ctx.Done() returns; the goroutine logs.
ShutdownWake ==
    /\ Running
    /\ shpc = "waiting"
    /\ ctxDone
    /\ shpc' = "woken"
    /\ UNCHANGED <<mainVars, snapshotVars, sigpc, ctxDone, shutdownErr, server, conns>>

\* Faulty variant: the listener is left open.
closeListeners_LeaveOpen(listener) == listener

\* Server.closeListenersLocked: the listener Serve registered is closed.
closeListeners(listener) == IF listener = "tracked" THEN "closed" ELSE listener

\* Faulty variant: the goroutine logs and ends without calling Shutdown.
ShutdownCall_LogOnly ==
    /\ Running
    /\ shpc = "woken"
    /\ shpc' = "done"
    /\ UNCHANGED <<mainVars, snapshotVars, sigpc, ctxDone, shutdownErr, server, conns>>

\* server.Shutdown is called: the server is marked as shutting down and its
\* listener is closed; closing it may fail.
ShutdownCall ==
    /\ Running
    /\ shpc = "woken"
    /\ shpc' = "polling"
    /\ server' = [inShutdown |-> TRUE, listener |-> closeListeners(server.listener)]
    /\ IF server.listener = "tracked"
       THEN \E e \in BOOLEAN : shutdownErr' = e
       ELSE UNCHANGED shutdownErr
    /\ UNCHANGED <<mainVars, snapshotVars, sigpc, ctxDone, conns>>

\* Faulty variant: after a failed Shutdown the goroutine calls it again.
ShutdownReturn_Retries ==
    /\ Running
    /\ shpc = "polling"
    /\ \A i \in ConnIds : ~ InFlight(conns[i])
    /\ shpc' = IF shutdownErr THEN "woken" ELSE "done"
    /\ slogErrors' = IF shutdownErr
                     THEN slogErrors \cup {"Failure during shutdown"} ELSE slogErrors
    /\ UNCHANGED <<args, failure, output, pc, parsedArgs, err, exitCode, snapshotVars, sigpc,
                   ctxDone, shutdownErr, server, conns>>

\* server.Shutdown returns once no connection is busy; its error is logged.
ShutdownReturn ==
    /\ Running
    /\ shpc = "polling"
    /\ \A i \in ConnIds : ~ InFlight(conns[i])
    /\ shpc' = "done"
    /\ slogErrors' = IF shutdownErr
                     THEN slogErrors \cup {"Failure during shutdown"} ELSE slogErrors
    /\ UNCHANGED <<args, failure, output, pc, parsedArgs, err, exitCode, snapshotVars, sigpc,
                   ctxDone, shutdownErr, server, conns>>

\* ------------------------------------------------------------- connections
Accepted == Cardinality({i \in ConnIds : conns[i].state # "idle"})

\* Whether the accept loop of server.Serve can take a connection.
CanAccept == pc = "serve" /\ server.listener = "tracked"

\* The accept loop takes a connection and reads its request.
AcceptConn(request) ==
    /\ Running
    /\ CanAccept
    /\ Accepted < MaxConns
    /\ conns' = [conns EXCEPT ![Accepted + 1] =
                    [IdleConn EXCEPT !.state = "active", !.request = request,
                                     !.afterCancel = ctxDone,
                                     !.afterShutdown = server.inShutdown]]
    /\ UNCHANGED <<mainVars, snapshotVars, shutdownVars>>

\* A client connects at any time, also while other requests are served.
Accept == \E request \in FewRequests : AcceptConn(request)

\* A client that sends one request after the other, with any headers.
AcceptNext ==
    /\ \A i \in ConnIds : ~ InFlight(conns[i])
    /\ \E request \in AllRequests(hashString)
                       \cup VariantRequests(hashString, SprintfX(Sum256(htmlContent))) :
          AcceptConn(request)

\* The connection's goroutine runs the server's Handler on the request.
Handle(i) ==
    /\ Running
    /\ conns[i].state = "active"
    /\ LET done == ServerHandler(mux, conns[i].request, rawCss, favicon, hashString,
                                 htmlContent)
       IN conns' = [conns EXCEPT ![i].state = "handled",
                                 ![i].recorder = done.recorder,
                                 ![i].event = done.event,
                                 ![i].events = @ + 1]
    /\ UNCHANGED <<mainVars, snapshotVars, shutdownVars>>

\* The response is flushed to the client and the connection closes.
Finish(i) ==
    /\ Running
    /\ conns[i].state = "handled"
    /\ conns' = [conns EXCEPT ![i] =
                    [IdleConn EXCEPT !.state = "closed",
                                     !.events = conns[i].events,
                                     !.afterCancel = conns[i].afterCancel,
                                     !.afterShutdown = conns[i].afterShutdown]]
    /\ UNCHANGED <<mainVars, snapshotVars, shutdownVars>>

\* ---------------------------------------------------------- specifications
Startup ==
    \/ Parse \/ StartContext \/ ReadMarkdown \/ LoadCss \/ LoadFavicon \/ Render
    \/ StartShutdownWaiter \/ ListenAndServe \/ ServeTrack

Stopping ==
    \/ Signal \/ SignalCancel \/ ShutdownWake \/ ShutdownCall \/ ShutdownReturn
    \/ ServeReturn \/ MainInnerReturn \/ MainExit

Serving == \E i \in ConnIds : Handle(i) \/ Finish(i)

\* The program with clients that connect at any time.
Next == Startup \/ Stopping \/ Accept \/ Serving

Spec == Init /\ [][Next]_vars

\* The goroutine of Serve and the shutdown goroutine are scheduled while the
\* process runs: a step of theirs that stays possible is taken.
Fairness ==
    /\ WF_vars(ServeTrack) /\ WF_vars(ServeReturn)
    /\ WF_vars(ShutdownWake) /\ WF_vars(ShutdownCall)

LiveSpec == Spec /\ Fairness

\* The same, and the main goroutine goes on to the end of the process and
\* server.Shutdown returns when it can.  No step of a connection is fair: a
\* request may never complete.
ExitFairness ==
    /\ Fairness
    /\ WF_vars(ListenAndServe) /\ WF_vars(MainInnerReturn) /\ WF_vars(MainExit)
    /\ WF_vars(ShutdownReturn)
ExitSpec == Spec /\ ExitFairness

\* The program with one client that sends any request, one at a time.
ServeNext == Startup \/ Stopping \/ AcceptNext \/ Serving

ServeSpec == Init /\ [][ServeNext]_vars

\* The program whose run is called again after it has returned.
AgainNext == Next \/ RunAgain \/ RegisterPanic
AgainSpec == Init /\ [][AgainNext]_vars

\* parse alone, on every combination of flags and environment values.
ParseInit == args \in ParseArgsSet /\ Start
ParseSpec == ParseInit /\ [][Parse]_vars

\* ------------------------------------------------------------- properties
Handled == {i \in ConnIds : conns[i].state = "handled"}
RequestOf(i) == conns[i].request
\* What the server sends for connection i: status, headers, body.
ResponseOf(i) == conns[i].recorder.Inner
NoBody(i) == ResponseOf(i).body = <<>> /\ conns[i].recorder.Written = 0

GetRoot(i) == RequestOf(i).method = "GET" /\ RequestOf(i).path = "/"

\* C1: a GET of / whose If-Match is non-empty and differs from the
\* fingerprint is answered 412 with no body, whatever If-None-Match holds.
C1_IfMatchMismatchIs412 ==
    \A i \in Handled :
        (GetRoot(i) /\ RequestOf(i).ifMatch \notin {"", hashString})
            => (ResponseOf(i).status = StatusPreconditionFailed /\ NoBody(i))

C1_Witness ==
    \E i \in Handled :
        /\ GetRoot(i)
        /\ RequestOf(i).ifMatch = "unknown"
        /\ RequestOf(i).ifNoneMatch = hashString
        /\ ResponseOf(i).status = StatusPreconditionFailed

\* C2: a GET of / whose If-None-Match equals the fingerprint and whose
\* If-Match is absent, empty or equal to the fingerprint is answered 304
\* with no body byte written.
C2_IfNoneMatchHitIs304 ==
    \A i \in Handled :
        (/\ GetRoot(i)
         /\ RequestOf(i).ifNoneMatch # ""
         /\ RequestOf(i).ifNoneMatch = hashString
         /\ RequestOf(i).ifMatch \in {"", hashString})
            => (ResponseOf(i).status = StatusNotModified /\ NoBody(i))

C2_Witness ==
    \E i \in Handled :
        /\ GetRoot(i)
        /\ RequestOf(i).ifNoneMatch = hashString
        /\ RequestOf(i).ifMatch = ""
        /\ ResponseOf(i).status = StatusNotModified

\* C3 as stated: a GET of / whose If-Match equals the fingerprint is answered
\* 200 whatever If-None-Match holds.
C3_IfMatchHitIs200 ==
    \A i \in Handled :
        (GetRoot(i) /\ RequestOf(i).ifMatch = hashString)
            => ResponseOf(i).status = StatusOK

\* C3 amended: a GET of / whose If-Match equals the fingerprint is answered
\* 200 unless If-None-Match equals the fingerprint too, and then 304.
C3_IfMatchHitDefersToIfNoneMatch ==
    \A i \in Handled :
        (GetRoot(i) /\ RequestOf(i).ifMatch = hashString)
            => ResponseOf(i).status =
                  (IF RequestOf(i).ifNoneMatch = hashString
                   THEN StatusNotModified ELSE StatusOK)

C3_Witness ==
    \E i \in Handled :
        /\ GetRoot(i)
        /\ RequestOf(i).ifMatch = hashString
        /\ RequestOf(i).ifNoneMatch = "unknown"
        /\ ResponseOf(i).status = StatusOK

\* C4: a GET of / that takes neither the 412 nor the 304 branch is answered
\* 200 with Content-Type text/html; charset=utf-8, the fingerprint as Etag
\* and the page as body, byte for byte.
C4_PlainGetServesPage ==
    \A i \in Handled :
        (/\ GetRoot(i)
         /\ RequestOf(i).ifMatch \in {"", hashString}
         /\ RequestOf(i).ifNoneMatch # hashString)
            => (/\ ResponseOf(i).status = StatusOK
                /\ ResponseOf(i).sent["Content-Type"] = ContentTypeHtml
                /\ ResponseOf(i).sent["Etag"] = hashString
                /\ ResponseOf(i).body = htmlContent)

C4_Witness ==
    \E i \in Handled :
        /\ GetRoot(i)
        /\ RequestOf(i).ifMatch = ""
        /\ RequestOf(i).ifNoneMatch = "unknown"
        /\ ResponseOf(i).body = htmlContent
        /\ Len(htmlContent) > 0

\* C5: a request to / with a method other than GET is answered 405 with no
\* body, also when it carries a mismatching If-Match or a matching
\* If-None-Match.
C5_NonGetIs405 ==
    \A i \in Handled :
        (RequestOf(i).path = "/" /\ RequestOf(i).method # "GET")
            => (ResponseOf(i).status = StatusMethodNotAllowed /\ NoBody(i))

C5_Witness ==
    \E i \in Handled :
        /\ RequestOf(i).path = "/"
        /\ RequestOf(i).method = "POST"
        /\ RequestOf(i).ifMatch = "unknown"
        /\ RequestOf(i).ifNoneMatch = hashString
        /\ ResponseOf(i).status = StatusMethodNotAllowed

\* C6: a request for a path that is not in the route table, such as
\* /default.css when no local stylesheet is configured, is answered 404 with
\* no body.  Stated for the paths the mux does not redirect to their clean
\* form first.
C6_UnroutedPathIs404 ==
    \A i \in Handled :
        (RequestOf(i).path \notin mux /\ cleanPath(RequestOf(i).path) = RequestOf(i).path)
            => (ResponseOf(i).status = StatusNotFound /\ NoBody(i))

\* C7: a request in flight when the cancellation signal arrives is never
\* aborted, whatever the order of the signal, the shutdown call, the return
\* of run and the exit of the process.
C7_NoRequestAborted ==
    \A i \in ConnIds : conns[i].state # "aborted"

ListenerBound == server.listener \in {"bound", "tracked", "closed"}
RunReturned == pc \in {"runReturned", "mainReturn", "exited"}

\* C9: when the listener was bound and the context is cancelled, run
\* eventually returns, and what it returns is ErrServerClosed, also when
\* server.Shutdown reports an error.
C9_RunReturnsServerClosed ==
    /\ (ListenerBound /\ ctxDone) ~> (RunReturned /\ err = ErrServerClosed)
    /\ [](ListenerBound /\ RunReturned => err = ErrServerClosed)

C9_Witness ==
    /\ ListenerBound
    /\ RunReturned
    /\ err = ErrServerClosed
    /\ shutdownErr
    /\ "Failure during shutdown" \in slogErrors

ConfigError ==
    /\ args.flagErr = "none"
    /\ args.nArg # 1 \/ ~ ParseAddrPortOk(FlagValue(args, "listen"))

\* C10: a wrong number of positional arguments or an invalid listen address
\* is reported before any listener starts, prints the usage text, and makes
\* the process exit with a non-zero status.
C10_ConfigErrorExitsNonZero ==
    (ConfigError /\ pc = "exited")
        => (output.usage /\ server.listener = "none" /\ exitCode # 0)

StartupFailed == failure # NoFailure

\* C11: when the document or the stylesheet file cannot be read or the
\* address cannot be bound, run returns an error that is not ErrServerClosed,
\* the server never listens and no request is served; a bind error is
\* returned as the listener reported it.
C11_StartupFailureIsAnError ==
    StartupFailed
        => (/\ RunReturned
            /\ err \notin {NoError, ErrServerClosed}
            /\ server.listener = "none"
            /\ Accepted = 0
            /\ failure.call = "net.Listen" => err = failure.cause)

C11_Witness ==
    /\ failure.call = "net.Listen"
    /\ failure.cause = "listen: permission denied"
    /\ err = failure.cause
    /\ server.inShutdown
    /\ pc = "exited"

GetHealthz(i) == RequestOf(i).method = "GET" /\ RequestOf(i).path = "/healthz"
HealthzPassed(i) ==
    /\ ResponseOf(i).status = StatusOK
    /\ ResponseOf(i).sent["Content-Type"] = ContentTypePlain
    /\ ResponseOf(i).body = HealthzBody

\* C12: while the server listens, a GET of /healthz is answered 200 with
\* Content-Type text/plain; charset=utf-8 and the body "healthz check passed",
\* whatever the page and whatever If-Match and If-None-Match hold.
C12_HealthzAlwaysPasses ==
    \A i \in Handled : GetHealthz(i) => HealthzPassed(i)

C12_Witness ==
    \E i \in Handled :
        /\ GetHealthz(i)
        /\ RequestOf(i).ifMatch = "unknown"
        /\ RequestOf(i).ifNoneMatch = hashString
        /\ HealthzPassed(i)
        /\ conns[i].recorder.Written = 20

DocumentUnreadable == failure.call = "os.ReadFile markdown"

\* C13 as stated: /healthz is served without a document too, so when the
\* document could not be read and run is over, the server has listened with
\* the route /healthz registered.
C13_HealthzWithoutDocument ==
    (DocumentUnreadable /\ RunReturned) => ("/healthz" \in mux /\ ListenerBound)

\* C13 amended: a GET of /healthz is answered 200 with the fixed body
\* whatever the document holds, but only by a server that has read and
\* rendered its document; when the document cannot be read no connection is
\* accepted.
C13_HealthzAfterDocument ==
    /\ \A i \in Handled :
          GetHealthz(i)
              => (/\ HealthzPassed(i)
                  /\ raw \in Documents
                  /\ htmlContent = Markdown(raw, parsedArgs.PageTitle, parsedArgs.CssUrl))
    /\ DocumentUnreadable => Accepted = 0

C13_Witness ==
    \E i \in Handled :
        /\ GetHealthz(i)
        /\ HealthzPassed(i)
        /\ raw = <<98>>
        /\ failure = NoFailure

FaviconConfigured == args.favicon # ""
GetPath(i, path) == RequestOf(i).method = "GET" /\ RequestOf(i).path = path

Redirections == {301, 302, 303, 307, 308}

CssOption == FlagValue(args, "css")
LocalCssConfigured == IsLocalCss(CssOption)

\* C16: when the stylesheet is configured as a local file path, with or
\* without the file:// prefix, every GET of /default.css is answered 200
\* with Content-Type text/css; charset=utf-8 and a body equal to the bytes
\* read at startup, and the rendered page references default.css.
C16_LocalCssIsServed ==
    \A i \in Handled :
        LocalCssConfigured
            => (/\ parsedArgs.CssUrl = "default.css"
                /\ rawCss \in Stylesheets
                /\ htmlContent = Markdown(raw, parsedArgs.PageTitle, "default.css")
                /\ htmlContent # Markdown(raw, parsedArgs.PageTitle, CssOption)
                /\ GetPath(i, "/default.css")
                    => (/\ ResponseOf(i).status = StatusOK
                        /\ ResponseOf(i).sent["Content-Type"] = "text/css; charset=utf-8"
                        /\ ResponseOf(i).body = rawCss
                        /\ conns[i].recorder.Written = Len(rawCss)))

C16_Witness ==
    \E i \in Handled :
        /\ CssOption = "file://style.css"
        /\ GetPath(i, "/default.css")
        /\ ResponseOf(i).status = StatusOK
        /\ ResponseOf(i).body = <<123, 125>>
        /\ htmlContent[3] = 100

\* The calls the handler of connection i's request makes on its writer.
HandlerCalls(i) == ServeMux(mux, RequestOf(i), rawCss, favicon, hashString, htmlContent)

RECURSIVE SumSeq(_)
SumSeq(ns) == IF ns = <<>> THEN 0 ELSE Head(ns) + SumSeq(Tail(ns))

\* C17: the recorder is transparent.  The server's writer receives exactly
\* the calls the handler made on the recorder, same arguments, same order;
\* the handler gets back the counts the writer returned; the status, the
\* headers and the body sent are the ones the same calls give on the writer
\* without a recorder.
C17_RecorderIsTransparent ==
    \A i \in Handled :
        LET direct == WriterCalls(NewResponse, <<>>, HandlerCalls(i))
        IN /\ ResponseOf(i).calls = HandlerCalls(i)
           /\ conns[i].recorder.returned = direct.results
           /\ conns[i].recorder.Written = SumSeq(direct.results)
           /\ ResponseOf(i) = direct.w

C17_Witness ==
    \E i \in Handled :
        /\ GetRoot(i)
        /\ Len(ResponseOf(i).calls) = 3
        /\ ResponseOf(i).calls[3] = WriteCall(htmlContent)
        /\ conns[i].recorder.returned = <<Len(htmlContent)>>
        /\ ResponseOf(i).sent["Etag"] = hashString

Snapshot == <<htmlContent, hashString>>
Served200(i) == GetRoot(i) /\ ResponseOf(i).status = StatusOK

\* The snapshot is the one computed at startup from the document and the
\* options, and the fingerprint is the function Sprintfx(Sum256(_)) of the
\* page.
SnapshotBuilt ==
    /\ raw \in Documents
    /\ htmlContent = Markdown(raw, parsedArgs.PageTitle, parsedArgs.CssUrl)
    /\ hashString = Sprintfx(Sum256(htmlContent))

\* C19: the snapshot is complete before the listener opens and so before
\* the first connection is accepted, no step changes it from then on, the
\* fingerprint is a function of the page, and every 200 response to GET /
\* carries that fingerprint as Etag and that page as body, so any two of
\* them carry the same.
C19_SnapshotIsImmutable ==
    /\ [](ListenerBound \/ Accepted > 0 => SnapshotBuilt)
    /\ [](\A i \in Handled :
             Served200(i) => (/\ ResponseOf(i).sent["Etag"] = hashString
                              /\ ResponseOf(i).body = htmlContent))
    /\ [](\A i, j \in Handled :
             (Served200(i) /\ Served200(j))
                 => (/\ ResponseOf(i).sent["Etag"] = ResponseOf(j).sent["Etag"]
                     /\ ResponseOf(i).body = ResponseOf(j).body))
    /\ [][ListenerBound => Snapshot' = Snapshot]_vars

C19_Witness ==
    /\ Served200(1)
    /\ Served200(2)
    /\ conns[1].state = "handled"
    /\ conns[2].state = "handled"
    /\ ResponseOf(1).sent["Etag"] = hashString
    /\ ResponseOf(2).body = htmlContent
    /\ server.listener = "closed"
    /\ hashString # ""

\* C20: If-Match and If-None-Match are compared with the fingerprint by
\* string equality.  On GET /, an If-Match value that is neither empty nor
\* the fingerprint itself (upper case, quoted, W/, "*", a list holding it)
\* is answered 412 without a body; when If-Match lets the request pass, an
\* If-None-Match value that is not the fingerprint itself is answered 200
\* with the page.
C20_ExactComparison ==
    \A i \in Handled :
        GetRoot(i)
            => (/\ RequestOf(i).ifMatch \notin {"", hashString}
                    => (ResponseOf(i).status = StatusPreconditionFailed /\ NoBody(i))
                /\ (/\ RequestOf(i).ifMatch \in {"", hashString}
                    /\ RequestOf(i).ifNoneMatch # hashString)
                    => (/\ ResponseOf(i).status = StatusOK
                        /\ ResponseOf(i).body = htmlContent))

\* The values of Variants that are not the fingerprint itself.
NearMisses == Variants(hashString, SprintfX(Sum256(htmlContent))) \ {hashString}

C20_Witness ==
    \E i \in Handled :
        /\ GetRoot(i)
        /\ RequestOf(i).ifMatch = hashString
        /\ RequestOf(i).ifNoneMatch = SprintfX(Sum256(htmlContent))
        /\ RequestOf(i).ifNoneMatch \in NearMisses
        /\ Cardinality(NearMisses) = 7
        /\ ResponseOf(i).status = StatusOK
        /\ ResponseOf(i).body = htmlContent

\* What an option's text stands for: a bool option's text is a bool or has
\* no value.
Spelled(o, v) ==
    IF o \in BoolOptions
    THEN (IF ParseBoolOk(v) THEN ParseBool(v) ELSE "no value")
    ELSE v

\* The value the precedence flag, environment, default gives option o.
Precedence(o) ==
    IF args.flag[o].set THEN Spelled(o, args.flag[o].v)
    ELSE IF args.env[o].set THEN Spelled(o, args.env[o].v)
    ELSE Default(o)

\* The field of argsStruct option o is parsed into.
Parsed(o) ==
    CASE o = "listen" -> parsedArgs.AddrPort
      [] o = "title" -> parsedArgs.PageTitle
      [] o = "css" -> parsedArgs.CssUrl
      [] o = "debug" -> parsedArgs.LogDebug
      [] OTHER -> parsedArgs.LogJson

\* C21: when parse succeeds, each option has the value of its flag when the
\* flag is given, otherwise the value of its MDHTTP_ environment variable
\* when that is set, otherwise its default.
C21_FlagEnvDefault ==
    pc = "mainInner" => \A o \in Options : Parsed(o) = Precedence(o)

\* The listener is bound and its accept loop runs.
Listening == server.listener = "tracked"
\* This step is the call of server.Shutdown.
ShutdownIsCalled == ~ server.inShutdown /\ server.inShutdown'

\* C22 as stated: server.Shutdown is called only when the listener is bound
\* and accepting.
C22_ShutdownOnlyWhenListening ==
    [][ShutdownIsCalled => Listening]_vars

\* C22 amended: server.Shutdown is called only after the context is
\* cancelled and the snapshot and the server are built, but it may be
\* called before the listener is bound or registered: then the listener
\* never accepts, no connection is taken, and run returns ErrServerClosed
\* unless binding failed.
C22_EarlyShutdownNeverListens ==
    /\ [][ShutdownIsCalled
            => (/\ ctxDone
                /\ SnapshotBuilt
                /\ pc \notin {"main", "mainInner", "run", "css", "favicon", "render",
                               "server"})]_vars
    /\ [][(server.inShutdown /\ ~ Listening) => ~ Listening']_vars
    /\ []((server.inShutdown /\ server.listener \in {"none", "bound"}) => Accepted = 0)
    /\ []((server.inShutdown /\ server.listener = "none" /\ RunReturned
             /\ failure = NoFailure)
            => err = ErrServerClosed)

C22_Witness ==
    /\ server.inShutdown
    /\ server.listener = "none"
    /\ sigpc = "done"
    /\ pc = "runReturned"
    /\ failure = NoFailure
    /\ err = ErrServerClosed
    /\ Accepted = 0

\* The lifecycle state of the server: Stopped once run has returned,
\* Draining once server.Shutdown was called, Listening while the accept loop
\* runs, Created before.  A process whose parse failed never calls run.
RunCalled == parsedArgs # NoArgs /\ pc \notin {"main", "mainInner"}
Lifecycle ==
    IF RunCalled /\ RunReturned THEN "Stopped"
    ELSE IF server.inShutdown THEN "Draining"
    ELSE IF Listening THEN "Listening"
    ELSE "Created"
Rank(state) ==
    CASE state = "Created" -> 0 [] state = "Listening" -> 1
      [] state = "Draining" -> 2 [] OTHER -> 3

\* C23 as stated: the lifecycle changes only by the steps Created to
\* Listening, Listening to Draining, Draining to Stopped, the second only
\* when the context is cancelled, and never on a step of a connection.
C23_LifecycleInOrder ==
    /\ [][Lifecycle' # Lifecycle
            => <<Lifecycle, Lifecycle'>> \in {<<"Created", "Listening">>,
                                              <<"Listening", "Draining">>,
                                              <<"Draining", "Stopped">>}]_vars
    /\ [][(Lifecycle = "Listening" /\ Lifecycle' = "Draining") => ctxDone]_vars
    /\ [][conns' # conns => Lifecycle' = Lifecycle]_vars

\* C23 amended: the lifecycle only moves forward in the order Created,
\* Listening, Draining, Stopped and no state is entered again, but states
\* are skipped: Created goes to Stopped when startup fails and to Draining
\* when the context is cancelled before the listener accepts.  Listening is
\* left only for Draining and only when the context is cancelled, Draining
\* only for Stopped, and no step of a connection changes the state.
C23_LifecycleOnlyForward ==
    /\ [][Rank(Lifecycle') >= Rank(Lifecycle)]_vars
    /\ [][(Lifecycle = "Created" /\ Lifecycle' = "Stopped")
            => failure' # NoFailure]_vars
    /\ [][(Lifecycle = "Listening" /\ Lifecycle' # Lifecycle)
            => (Lifecycle' = "Draining" /\ ctxDone)]_vars
    /\ [][(Lifecycle = "Draining" /\ Lifecycle' # Lifecycle)
            => Lifecycle' = "Stopped"]_vars
    /\ [][conns' # conns => Lifecycle' = Lifecycle]_vars

C23_Witness ==
    /\ Lifecycle = "Stopped"
    /\ pc = "runReturned"
    /\ server.listener = "closed"
    /\ err = ErrServerClosed
    /\ conns[1].state = "closed"
    /\ conns[2].state = "handled"

ShutdownInvoked == shpc \in {"polling", "done"}

\* C25: the goroutine that waits for the context calls server.Shutdown at
\* most once and only when the context is cancelled, ends when the call
\* returns, and does nothing else to the server or to the snapshot.
C25_ShutdownAtMostOnce ==
    /\ [][(shpc # "polling" /\ shpc' = "polling")
            => (shpc = "woken" /\ ctxDone /\ ShutdownIsCalled)]_vars
    /\ [][ShutdownInvoked => ShutdownInvoked']_vars
    /\ [][shpc = "done" => shpc' = "done"]_vars
    /\ [][shpc' # shpc
            => (/\ snapshotVars' = snapshotVars
                /\ server' # server => (shpc = "woken" /\ shpc' = "polling"))]_vars
    /\ [](server.inShutdown <=> ShutdownInvoked)

C25_Witness ==
    /\ shpc = "done"
    /\ shutdownErr
    /\ server.inShutdown
    /\ server.listener = "closed"
    /\ "Failure during shutdown" \in slogErrors
    /\ conns[1].state = "closed"

\* C26: the 304 response to GET / reaches the client without Content-Type
\* and without Content-Length, although the handler has set both.
C26_NotModifiedHasNoEntityHeaders ==
    \A i \in Handled :
        (GetRoot(i) /\ ResponseOf(i).status = StatusNotModified)
            => (/\ ResponseOf(i).sent["Content-Type"] = ""
                /\ ResponseOf(i).sent["Content-Length"] = ""
                /\ NoBody(i))

C26_Witness ==
    \E i \in Handled :
        /\ GetRoot(i)
        /\ ResponseOf(i).status = StatusNotModified
        /\ ResponseOf(i).header["Content-Type"] = ContentTypeHtml
        /\ ResponseOf(i).header["Content-Length"] = Itoa(Len(htmlContent))
        /\ ResponseOf(i).sent = NoHeaders

\* C27: a call of run made after an earlier call in the same process
\* registers its routes without failure: no registration ever panics.
C27_SecondRunRegisters ==
    pc # "panicked"

\* The positions of the calls of an operation in a sequence of calls.
CallsOf(cs, op) == {k \in 1..Len(cs) : cs[k].op = op}
BodilessStatuses ==
    {StatusNotModified, StatusNotFound, StatusMethodNotAllowed, StatusPreconditionFailed}

\* C28: a handler calls WriteHeader at most once for a request and never
\* after a Write, so the status the recorder holds when the event is logged,
\* 200 when WriteHeader was not called, is the status sent, and the byte
\* count logged for a 304, 404, 405 or 412 response is 0.
C28_RecordedStatusIsSentStatus ==
    \A i \in Handled :
        LET cs == ResponseOf(i).calls
        IN /\ Cardinality(CallsOf(cs, "WriteHeader")) <= 1
           /\ \A k \in CallsOf(cs, "Write"), j \in CallsOf(cs, "WriteHeader") : j < k
           /\ conns[i].recorder.StatusCode = ResponseOf(i).status
           /\ conns[i].event.status = ResponseOf(i).status
           /\ CallsOf(cs, "WriteHeader") = {} => conns[i].event.status = StatusOK
           /\ ResponseOf(i).status \in BodilessStatuses
                  => (conns[i].event.bytes = 0 /\ conns[i].recorder.Written = 0)

C28_Witness ==
    \E i \in Handled :
        /\ GetRoot(i)
        /\ CallsOf(ResponseOf(i).calls, "WriteHeader") = {}
        /\ CallsOf(ResponseOf(i).calls, "Write") = {3}
        /\ conns[i].recorder.StatusCode = StatusOK
        /\ ResponseOf(i).status = StatusOK
        /\ conns[i].event = [method |-> "GET", uri |-> "/", status |-> StatusOK,
                             bytes |-> Len(htmlContent)]
====
